---- MODULE Spec2Model ----
(***************************************************************************)
(* Model of modeling/modelanalysis.py: the bootstrap confidence-interval   *)
(* estimators auc_ci and op_ratio_ci, the observed/predicted ratio         *)
(* op_ratio, and the plotting helpers gen_auc_plot, gen_calib_plot and     *)
(* gen_logodds_plot.                                                       *)
(*                                                                         *)
(* Numbers.  A predicted probability is an integer number of tenths        *)
(* (0 .. 10), a label is 0 or 1.  A bootstrap statistic is the exact       *)
(* fraction [num, den] of the value the code computes in floating point;   *)
(* den = 0 stands for the non-finite results of a float division:          *)
(* [num > 0, den = 0] is +inf and [num = 0, den = 0] is NaN.               *)
(***************************************************************************)
EXTENDS Integers, Sequences, FiniteSets, TLC

MaxLen == 2
MaxBoot == 2
MaxFeatures == 3

n_bootstraps_default == 2000
positive_color == 8
negative_color == 10

(***************************************************************************)
(* np.random.RandomState(seed=42) is MT19937 initialised by                *)
(* init_genrand(42).  MT42[k] is the two low bits of its k-th 32-bit       *)
(* output (the outputs start 1608637542, 3421126067, 4083286876, ...).     *)
(* randint(0, N, N) with N <= 4 reads nothing but these bits.              *)
(***************************************************************************)
MT42 == <<
    2,3,0,2,2,3,0,0,2,1,2,2,2,2,3,0,3,3,3,2,1,0,1,3,3,1,1,1,3,3,0,0,3,1,1,0,3,0,0,2,
    2,2,1,3,3,3,3,2,1,1,2,1,2,3,2,3,3,0,2,0,2,2,0,0,2,1,3,0,3,1,1,1,0,1,0,1,3,3,2,3,
    2,3,0,3,2,2,1,0,3,1,3,3,1,1,1,1,1,3,1,0,2,1,1,3,1,1,1,3,1,2,3,2,3,1,2,3,0,1,3,0,
    3,0,1,2,0,3,1,0,3,3,3,0,0,0,2,0,0,0,2,0,3,0,3,3,3,2,2,2,0,3,2,2,0,2,0,1,2,1,0,3,
    2,0,3,3,1,0,3,2,2,1,3,0,2,3,3,1,2,2,0,2,0,2,1,2,0,0,1,2,2,1,2,2,0,2,2,1,1,3,0,2,
    2,3,2,0,3,0,3,3,1,0,2,2,0,2,2,0,3,0,3,2,2,2,1,3,1,1,0,1,0,0,1,3,3,3,3,3,1,1,2,3,
    1,2,3,0,2,1,0,0,0,2,1,0,3,0,0,2,2,1,3,2,0,1,0,0,2,1,3,3,2,2,1,3,3,3,0,3,0,1,0,1,
    3,3,1,2,1,2,0,0,0,3,0,2,0,1,1,3,1,2,0,3,0,0,2,1,1,0,3,1,3,1,3,2,3,2,2,3,2,0,2,1,
    3,0,3,1,1,1,2,2,3,3,0,0,3,2,1,3,0,2,3,3,2,3,2,1,2,2,2,3,3,2,3,0,0,3,3,2,1,3,0,2,
    3,0,0,1,2,2,1,1,2,2,3,3,1,3,0,3,3,0,1,0,3,1,3,0,0,3,2,2,0,0,2,2,3,3,2,3,3,1,3,0,
    3,3,2,0,3,3,1,3,3,1,2,3,1,0,2,0,0,1,3,1,1,1,1,2,3,0,0,3,0,3,0,1,0,3,3,3,3,3,2,2,
    0,3,0,3,3,2,2,1,2,1,1,1,1,1,0,2,1,3,2,2,1,0,1,0,3,2,3,0,0,3,0,3,2,3,2,3,0,3,0,3,
    3,1,0,1,0,1,2,3,0,0,3,0,0,1,0,2,2,3,0,3,2,0,0,3,2,0,3,2,3,1,0,1,2,1,1,2,3,1,3,1,
    3,2,1,2,1,2,2,1,1,1,0,3,0,0,2,1,3,2,0,1,2,1,2,1,0,3,0,3,1,2,0,3,0,3,0,3,3,1,3,1,
    3,2,2,2,3,1,1,3,2,2,1,2,0,1,2,1,0,1,1,1,1,0,3,1,1,2,1,2,3,0,0,3,0,3,3,3,0,2,3,1,
    0,3,3,1,2,2,2,3,3,3,0,1,3,1,1,2,0,3,2,2,3,1,2,1,0,1,0,1,2,2,0,3,0,0,1,1,0,2,1,3,
    1,1,3,0,3,0,0,0,3,0,2,3,2,0,1,0,2,2,3,1,3,2,0,1,0,0,1,3,0,2,0,1,1,1,3,0,3,3,1,1,
    3,0,2,3,0,1,1,0,2,1,1,1,0,3,1,3,2,1,1,2,1,3,0,3,0,0,3,3,3,3,2,1,0,3,3,3,2,3,3,3,
    1,2,3,0,0,0,2,2,0,3,2,0,0,3,1,2,3,0,0,3,2,1,1,0,2,1,2,2,0,1,3,0,1,1,1,1,1,2,0,2,
    3,1,0,1,0,2,0,3,3,0,0,0,0,3,1,0,0,3,3,2,0,2,3,3,1,0,2,3,3,2,1,3,0,3,0,2,0,2,0,2,
    0,1,0,0,1,3,3,0,1,0,2,2,0,3,3,0,0,2,3,0,2,3,1,2,3,3,2,1,2,3,0,0,2,3,0,3,2,0,3,0,
    2,3,0,2,0,0,1,1,2,1,2,1,0,2,2,0,2,2,1,2,3,0,1,1,3,0,0,1,2,1,0,3,1,0,1,2,1,1,0,0,
    0,1,2,3,3,0,0,1,3,0,2,2,0,0,3,3,1,3,2,2,0,3,1,2,2,1,1,2,2,1,2,0,0,1,3,1,1,3,3,3,
    0,2,0,2,0,2,0,3,1,0,2,3,0,0,3,0,1,0,1,1,3,0,3,0,0,2,0,3,1,0,2,3,0,3,2,2,3,0,1,2,
    0,0,1,2,2,0,0,1,1,2,3,2,0,2,3,1,3,3,3,1,3,3,3,0,3,1,3,3,1,3,1,3,1,3,3,0,0,3,3,2,
    1,2,0,0,0,0,3,0,3,3,0,0,1,2,0,1,1,2,3,0,2,0,1,1,3,1,1,2,0,0,2,3,0,1,0,1,3,2,0,2,
    0,1,2,0,1,2,2,0,0,0,1,0,2,2,0,0,3,2,1,3,0,0,2,0,1,2,0,2,0,0,0,1,1,2,0,0,1,0,1,0,
    2,0,0,3,1,0,0,3,3,1,3,2,3,2,1,1,1,1,1,2,2,1,3,0,1,3,0,1,1,2,0,0,3,2,2,2,2,0,0,1,
    1,2,2,2,1,3,3,1,1,1,1,1,1,2,2,2,2,1,3,0,1,0,3,2,3,1,2,1,2,0,0,0,3,1,3,0,1,0,3,3,
    3,0,1,1,0,1,0,1,2,2,3,2,2,2,0,2,2,3,2,2,1,3,3,3,3,3,3,0,2,3,2,2,0,3,1,0,1,2,2,0,
    0,1,3,1,0,1,0,1,0,0,0,3,1,1,1,0,1,1,0,2,0,1,0,2,0,1,2,3,1,2,2,3,0,0,1,3,0,3,0,2,
    0,3,2,2,2,3,1,1,1,3,2,1,3,1,0,1,1,2,3,2,2,2,2,2,1,2,2,3,0,1,1,1,2,2,2,3,0,2,0,3,
    1,2,0,0,2,1,1,1,3,0,0,0,3,0,3,1,2,0,0,1,2,3,2,1,1,2,3,3,0,3,2,1,0,0,1,3,1,3,1,2,
    3,2,0,1,0,0,0,0,1,0,1,1,2,3,3,1,2,1,1,1,2,3,2,0,2,2,2,2,3,0,3,3,2,1,1,3,3,2,3,2,
    1,1,0,1,3,1,2,1,0,1,2,2,3,1,2,0,3,0,1,1,1,3,2,3,0,3,0,3,2,0,1,1,3,1,0,1,2,2,3,0,
    2,2,0,1,1,3,1,0,2,1,3,1,0,3,1,3,0,2,0,0,0,0,2,2,3,1,2,2,1,2,0,0,1,3,3,1,1,0,3,2,
    0,1,3,2,2,0,3,3,1,3,3,0,3,2,0,0,1,3,1,2,0,0,0,2,2,1,1,1,3,0,0,1,0,1,3,3,2,3,1,3,
    2,0,1,0,2,2,2,0,0,0,0,2,2,1,1,0,3,3,2,2,2,1,1,2,2,2,3,1,3,3,2,2,0,0,3,1,2,2,3,0,
    1,0,0,0,0,2,2,0,1,3,1,1,1,0,2,1,0,1,1,0,2,2,3,0,3,3,3,2,0,3,0,0,2,3,3,0,1,2,2,2,
    2,3,3,1,2,2,0,3,2,1,1,3,1,1,3,2,2,1,1,2,3,1,0,3,1,1,0,0,2,3,3,2,3,3,3,3,3,0,3,0,
    3,2,1,0,3,2,1,0,1,2,0,1,3,0,1,2,2,0,1,0,0,1,1,3,1,2,0,0,2,1,2,2,3,2,0,2,0,0,0,1,
    3,0,0,1,0,2,2,3,0,1,2,1,1,2,1,2,1,2,0,3,2,2,3,2,2,1,3,0,2,3,1,0,3,0,0,0,2,2,1,1,
    3,1,0,0,2,0,3,0,0,3,1,1,3,2,0,3,0,2,0,3,0,1,2,2,2,3,2,1,3,1,0,0,0,0,1,3,3,2,1,0,
    1,2,2,1,1,1,3,0,1,1,1,2,2,3,0,3,0,2,2,2,3,1,1,2,1,1,3,0,2,2,3,3,1,2,0,3,0,0,2,2,
    3,2,2,2,0,3,1,0,2,0,2,2,0,3,2,3,1,2,3,3,1,3,3,1,2,3,3,3,0,1,0,1,2,2,3,1,2,1,2,0,
    2,0,2,3,0,2,3,0,3,1,1,0,2,0,3,2,1,2,1,2,2,2,3,3,0,0,1,3,1,0,1,0,3,2,3,1,1,3,3,0,
    1,1,3,2,1,2,3,3,0,1,2,0,1,0,3,1,0,0,2,0,1,1,2,1,3,1,1,0,0,1,2,0,2,1,1,3,0,1,3,0,
    1,1,0,0,0,1,1,3,2,0,1,1,0,2,0,2,1,2,3,1,3,0,0,0,2,1,0,0,1,0,3,1,1,1,3,1,3,1,2,0,
    2,0,3,2,1,0,0,2,3,2,3,3,0,2,2,3,2,1,1,2,2,3,1,1,0,3,0,1,3,2,3,2,2,3,2,0,1,2,0,2,
    1,0,1,1,0,0,0,3,0,0,0,0,2,3,1,0,2,2,2,1,0,3,3,2,1,1,1,3,2,0,3,2,2,0,0,0,1,0,2,0,
    2,3,1,3,3,2,3,2,0,0,2,0,1,3,1,3,0,1,0,3,2,2,1,0,0,1,2,3,1,3,2,0,2,1,0,1,1,2,1,2,
    0,2,0,2,3,3,1,2,2,0,1,2,1,3,2,2,1,2,1,2,0,1,2,3,2,3,3,0,1,2,0,2,3,1,2,2,3,2,2,3,
    0,3,0,1,0,0,1,0,3,0,1,3,1,1,2,2,1,1,1,2,2,0,0,1,3,3,2,2,2,1,3,0,1,0,0,1,0,3,0,3,
    3,3,2,0,1,1,0,2,2,3,0,0,1,0,2,0,1,3,1,1,3,1,1,0,0,3,0,0,1,2,0,2,0,0,3,3,3,2,1,0,
    0,0,2,3,1,2,3,2,1,3,2,1,0,1,0,2,3,3,2,3,3,0,2,1,0,2,0,1,1,2,1,0,1,0,0,1,2,3,1,0,
    0,1,2,2,0,0,2,3,1,0,0,2,1,2,1,1,1,0,3,2,3,2,1,0,3,0,2,0,0,3,1,0,1,2,0,3,2,2,3,0,
    0,2,0,1,3,1,0,2,3,0,0,2,2,1,3,3,2,1,3,2,0,3,1,1,1,0,3,3,0,3,0,0,0,1,3,0,3,1,0,2,
    1,2,3,3,1,3,2,0,0,0,1,3,2,3,3,3,0,2,2,3,0,0,2,0,0,0,1,3,2,2,1,3,2,0,2,0,1,0,2,2,
    2,1,1,3,2,0,1,2,2,1,3,1,1,0,0,3,2,1,3,0,1,2,0,0,0,3,2,1,3,3,3,0,2,3,1,2,1,2,1,0,
    3,1,2,3,3,2,1,0,0,1,3,3,3,3,1,3,2,3,0,3,1,0,1,1,0,1,1,3,2,1,1,1,3,2,0,3,3,2,2,3,
    0,3,2,0,2,0,1,2,2,3,2,2,1,2,1,1,1,1,0,3,0,2,0,0,2,2,2,0,0,2,3,3,1,2,1,3,1,2,2,2,
    0,1,3,3,3,0,0,2,3,0,2,3,1,2,0,0,2,2,0,1,3,1,2,1,0,2,3,0,0,3,3,1,2,3,3,2,3,3,1,0,
    0,0,0,3,2,2,1,1,3,2,2,0,3,3,0,3,3,1,2,3,1,2,0,1,1,2,0,1,3,3,3,0,1,3,0,3,2,1,1,0,
    0,1,3,3,2,3,0,0,3,0,1,1,3,1,1,2,2,1,3,2,0,0,0,3,1,0,3,2,1,2,3,0,0,3,0,1,3,2,3,1,
    1,3,3,0,1,3,3,1,3,0,1,0,0,0,0,1,0,0,3,1,1,2,1,1,2,1,1,1,1,2,1,1,2,3,0,3,2,0,2,2,
    1,0,1,0,2,2,3,0,1,3,3,3,1,3,1,3,1,2,2,2,2,2,3,3,3,1,1,1,1,2,2,2,0,3,1,1,2,1,1,3,
    2,3,0,0,0,2,1,2,2,1,3,0,3,0,2,0,2,3,2,3,1,1,1,2,1,0,3,3,0,2,2,3,1,2,2,0,0,1,2,2,
    0,2,3,0,1,0,2,1,0,3,3,0,3,3,3,1,3,3,3,1,0,2,3,0,3,1,0,1,3,3,1,2,1,3,1,2,1,2,2,1,
    1,0,3,2,0,1,3,0,2,0,2,1,3,3,3,1,2,1,3,1,1,1,2,0,0,1,0,0,1,1,3,0,2,1,3,2,0,3,1,2,
    1,0,2,0,0,3,1,2,0,0,2,0,3,3,3,3,0,2,2,2,2,1,2,1,1,3,1,0,1,3,1,0,0,0,3,3,2,3,0,0,
    3,1,3,3,0,2,0,2,0,3,0,0,0,3,3,3,3,2,2,1,3,2,0,3,1,1,1,0,2,0,3,1,0,0,2,2,1,0,0,2,
    0,0,0,2,1,3,1,3,0,1,3,2,2,1,1,0,1,0,0,2,2,3,2,2,1,2,3,1,3,2,3,1,0,3,3,1,1,3,2,3,
    1,0,0,2,3,0,3,1,0,2,1,2,1,0,2,2,1,2,1,1,1,1,0,1,3,2,3,0,3,2,3,0,1,3,0,0,2,2,3,1,
    0,3,0,0,1,1,3,1,1,3,1,2,0,0,0,0,3,0,0,0,0,2,0,2,3,1,0,1,1,3,1,2,1,1,1,0,0,2,2,0,
    2,0,3,1,1,2,0,0,2,0,3,1,2,2,0,2,3,0,0,0,0,3,0,2,3,1,1,2,2,3,1,1,1,1,1,0,2,0,1,3,
    3,1,1,3,0,0,1,0,3,0,1,3,0,2,3,3,2,2,3,2,1,1,1,3,2,2,0,0,2,2,2,3,2,0,3,2,0,3,2,2,
    2,3,0,0,1,2,1,1,0,3,3,0,3,1,2,0,2,3,2,3,3,1,3,1,1,1,0,0,3,1,0,1,2,2,2,3,1,2,0,2,
    2,2,3,0,1,0,1,3,3,3,3,1,2,1,0,3,3,0,1,2,2,0,2,1,1,0,1,3,0,1,0,2,1,3,1,0,0,1,3,3,
    3,0,1,2,0,3,1,3,2,3,3,2,1,0,1,2,3,1,0,2,1,0,2,0,2,3,1,0,2,0,0,1,3,0,2,2,3,2,3,2,
    1,0,1,0,0,0,1,0,1,3,2,2,0,1,2,1,1,0,2,0,0,2,2,3,3,1,2,3,1,1,1,3,2,0,1,3,3,0,0,3,
    2,0,3,0,2,1,0,2,3,0,0,3,1,3,0,3,2,3,0,3,1,3,1,2,1,3,0,1,2,1,1,1,2,3,1,1,0,2,1,2,
    1,3,3,1,3,1,3,0,0,0,2,2,0,2,3,1,1,1,0,2,3,3,0,3,3,3,3,2,3,1,0,2,3,2,3,1,0,3,3,3,
    3,0,0,1,0,3,1,1,1,3,2,3,0,0,3,3,1,3,1,0,1,3,0,2,1,0,1,0,0,1,2,0,0,0,2,2,3,1,2,1,
    3,1,2,1,2,1,2,2,1,3,0,3,1,3,2,0,1,1,1,0,2,1,3,1,1,1,1,2,3,2,3,1,0,2,0,2,1,2,1,2,
    1,1,3,1,3,1,0,1,0,0,1,0,3,2,1,0,1,3,1,1,0,3,2,2,0,1,0,0,0,1,3,0,1,3,0,2,3,0,3,3,
    3,3,3,3,0,2,1,3,1,0,3,2,1,3,0,2,1,1,3,2,2,2,2,0,2,1,1,0,1,1,2,1,0,2,3,2,0,2,2,0,
    2,0,0,3,1,1,2,2,3,3,3,0,3,3,2,3,0,0,2,3,3,0,3,3,3,1,2,1,2,0,3,2,1,3,0,2,2,2,3,1,
    1,2,0,0,1,0,1,2,1,1,2,0,1,1,2,0,1,2,1,3,2,0,0,0,0,1,1,0,0,0,1,0,0,3,3,0,2,0,3,2,
    2,0,3,3,2,0,1,1,3,1,3,3,3,1,3,2,0,0,3,0,1,1,0,1,0,0,0,3,0,3,0,0,0,1,3,3,0,0,1,1,
    1,3,3,3,0,3,2,2,1,3,2,1,3,0,2,0,3,2,3,0,2,0,3,3,0,2,0,3,0,3,0,2,2,0,0,2,3,2,3,0,
    0,3,0,3,1,2,1,3,2,3,2,2,2,2,3,2,2,1,0,0,1,1,3,3,3,1,1,2,3,3,3,0,2,3,3,3,0,0,1,2,
    1,2,0,3,1,3,1,0,0,0,1,2,1,2,1,1,0,3,3,2,3,1,1,0,0,3,2,3,3,3,3,1,2,1,2,0,3,1,2,0,
    0,3,2,1,3,1,0,1,1,3,1,3,0,3,3,2,1,0,3,0,2,1,3,1,2,2,0,3,0,2,1,0,0,1,0,1,3,1,3,1,
    2,2,3,3,2,3,1,1,2,0,1,3,0,0,1,1,0,0,2,3,2,1,2,2,2,2,3,3,0,1,2,0,0,0,3,2,2,1,2,2,
    0,1,2,3,2,0,3,0,2,3,1,1,3,3,0,3,0,2,0,3,3,2,3,3,1,1,2,0,1,0,3,1,2,2,2,1,0,3,0,0,
    3,3,1,1,1,1,1,3,0,1,1,0,1,0,0,3,2,3,2,2,2,1,3,2,0,1,3,2,0,3,3,1,3,1,2,1,0,1,0,1,
    3,2,0,1,1,1,3,3,0,0,3,0,2,2,3,0,1,2,3,0,3,1,2,3,3,3,1,3,1,1,1,2,2,3,3,2,0,2,1,2,
    1,3,0,3,1,1,1,0,2,3,3,2,3,0,3,1,2,0,2,0,1,2,3,0,2,3,2,2,2,0,3,1,0,0,0,1,3,3,3,2,
    2,2,1,2,1,3,2,2,0,1,3,0,0,3,0,1,1,2,0,2,0,1,1,1,0,1,0,2,0,2,0,2,1,2,1,1,2,0,0,3,
    0,3,0,0,1,3,0,3,1,1,3,1,2,2,1,2,0,3,0,3,1,0,1,1,3,3,3,0,2,3,3,0,3,0,1,3,3,1,1,1,
    3,2,2,2,3,1,3,1,3,3,1,2,1,0,0,1,3,0,0,3,3,2,3,1,1,2,0,0,3,1,0,2,2,1,2,2,1,3,3,2,
    3,3,2,3,2,0,1,1,3,3,3,1,0,0,1,0,1,0,2,2,1,0,3,0,2,2,0,0,3,3,0,0,0,0,1,0,3,2,1,0,
    2,1,2,0,0,3,0,0,1,3,1,2,0,2,1,0,0,1,1,1,1,1,0,1,0,0,1,1,3,0,1,1,1,3,3,2,0,2,1,3,
    3,2,3,1,3,2,1,2,3,2,2,0,3,3,2,0,3,1,2,3,1,3,1,2,3,3,0,2,1,3,3,1,2,0,0,3,1,3,1,0,
    2,1,0,3,1,2,3,3,0,1,3,2,1,2,3,2,0,2,1,2,2,0,2,2,3,3,1,3,3,3,3,0,3,0,0,3,2,0,2,2,
    3,1,3,1,1,3,3,1,3,1,2,3,2,0,2,2,1,2,3,1,0,3,0,2,3,3,0,3,3,3,2,0,3,1,1,1,1,2,3,0,
    3,2,1,2,3,0,2,0,2,0,0,1,0,1,3,3,1,1,2,2,2,3,2,0,0,2,0,3,0,3,1,1,1,1,0,2,0,3,0,0,
    3,1,1,1,2,3,3,0,2,1,2,3,3,0,0,3,1,1,2,3,3,1,1,3,0,3,3,1,1,0,0,2,3,1,0,2,2,1,1,2,
    0,2,3,3,1,0,0,3,2,1,2,2,2,0,3,0,3,1,1,2,3,3,3,2,2,1,0,3,3,0,3,2,2,3,2,2,3,1,0,2,
    1,2,2,0,2,0,0,0,1,3,1,3,3,0,2,0,2,3,0,2,1,2,0,1,2,2,2,2,2,1,3,1,1,1,3,0,3,1,2,2,
    1,2,1,2,3,0,0,3,3,1,1,1,2,1,3,0,2,1,2,2,1,2,0,3,3,0,2,1,2,0,2,3,2,0,3,2,2,3,1,3,
    1,0,0,3,3,0,1,0,3,0,3,3,0,1,2,0,2,0,2,1,1,0,3,2,3,3,3,1,0,0,1,1,0,3,2,2,2,3,0,1,
    0,3,1,3,2,2,3,1,1,0,2,0,0,3,3,0,2,3,0,0,0,0,0,0,3,2,0,1,3,3,0,3,0,2,2,3,3,1,3,1,
    2,2,0,2,1,3,0,1,3,0,2,1,3,0,0,2,3,2,2,3,3,3,1,3,0,2,1,3,1,3,1,2,2,0,0,3,2,1,1,1,
    0,1,0,0,3,1,1,2,3,2,3,1,0,0,0,0,0,2,3,1,2,3,0,3,3,0,0,0,1,0,1,0,1,3,2,3,3,0,1,2,
    0,0,0,3,1,1,2,1,1,0,0,3,0,0,0,0,3,0,2,2,2,2,0,2,0,3,2,1,2,2,0,2,1,0,0,3,3,2,3,3,
    3,0,0,0,3,0,3,0,0,1,2,3,1,0,3,0,2,1,2,1,0,2,2,0,2,3,1,1,1,3,1,0,2,3,1,0,2,2,3,3,
    3,0,0,3,1,2,2,0,2,1,2,0,0,1,1,2,2,0,1,1,1,2,1,0,0,2,3,2,3,1,2,0,1,0,1,2,3,1,3,1,
    0,0,1,3,2,2,0,2,0,2,1,0,0,1,0,2,2,0,2,3,0,1,3,0,1,2,1,3,2,0,2,0,0,1,1,1,3,3,1,3,
    2,2,3,3,2,0,2,2,3,2,3,3,1,2,0,1,3,3,0,3,2,1,3,3,0,2,3,0,3,0,0,2,3,2,0,1,3,1,3,2,
    2,2,2,2,1,2,0,0,1,3,0,3,1,3,3,3,3,1,0,2,3,0,0,1,0,1,3,3,2,2,2,0,3,1,2,1,1,2,3,2,
    1,2,1,1,2,0,2,0,1,1,0,1,0,0,1,3,0,2,2,1,3,1,3,0,0,0,0,2,2,1,3,0,0,3,3,1,3,0,0,0,
    0,0,1,0,1,0,2,2,2,2,1,1,3,0,2,1,0,0,1,2,3,0,3,2,2,3,2,0,3,2,3,0,2,0,2,1,2,3,2,0,
    0,2,3,1,3,1,0,3,1,2,0,2,0,3,3,0,0,0,3,1,2,2,3,2,0,1,2,1,0,2,3,1,0,1,2,2,3,0,0,3,
    3,0,1,1,3,1,0,2,2,1,3,3,3,3,3,1,2,2,1,3,1,2,0,1,3,2,2,2,2,3,0,2,1,0,2,0,1,2,1,3,
    2,2,2,2,3,2,0,2,3,2,0,3,3,0,0,0,0,0,3,3,2,2,1,2,2,0,0,2,1,0,2,2,3,1,3,1,0,1,2,2,
    1,1,1,3,1,0,3,3,1,0,3,2,3,1,0,1,2,2,2,1,3,1,0,3,2,1,2,2,0,3,0,0,0,2,0,0,3,3,0,3,
    3,0,2,0,3,2,1,2,3,2,0,1,1,1,3,3,1,2,1,2,2,3,2,1,3,0,0,3,1,0,0,2,2,1,3,1,3,0,2,1,
    1,3,3,1,3,1,1,1,0,3,2,2,3,1,2,2,3,2,1,3,1,2,2,1,0,2,0,2,0,0,0,1,0,0,0,2,0,2,0,0,
    1,2,0,2,2,3,1,1,1,3,3,1,3,3,3,1,1,1,3,1,3,0,3,2,1,1,2,3,0,2,2,3,1,3,2,2,1,1,1,3,
    1,2,2,0,3,0,2,0,2,0,1,0,1,1,3,1,1,0,2,3,1,3,0,1,0,3,0,3,0,3,2,0,0,2,2,0,2,1,3,3,
    3,1,2,2,0,2,0,1,3,3,3,2,0,0,1,2,1,0,0,3,2,0,3,2,1,2,2,0,0,2,0,0,0,3,3,2,0,3,2,0,
    1,0,0,3,2,2,3,0,1,0,0,1,3,2,3,3,0,2,2,3,1,3,1,2,3,0,3,2,0,0,1,0,0,3,2,1,3,0,0,1,
    2,1,3,1,0,3,0,2,0,0,1,0,3,3,2,3,1,2,3,1,3,3,0,3,3,1,1,0,3,0,3,2,2,0,0,0,1,1,1,0,
    3,2,0,1,1,0,0,1,3,1,1,0,3,1,1,2,0,2,2,1,0,3,1,3,3,0,2,0,3,1,3,1,1,0,3,2,3,3,2,0,
    3,3,1,3,2,1,0,1,2,2,1,0,1,0,1,2,3,3,0,0,0,2,1,2,3,0,1,3,3,3,2,0,3,0,2,3,2,2,0,3,
    2,3,0,2,0,3,3,0,1,2,3,3,2,0,0,0,1,1,3,0,2,3,2,3,1,3,1,3,0,2,0,3,3,3,1,2,2,3,3,1,
    0,0,2,1,3,2,1,0,1,0,1,2,0,2,2,0,0,3,3,3,2,2,3,2,2,0,0,2,3,1,3,1,3,0,2,2,0,1,1,1,
    0,1,0,3,3,0,2,3,1,0,1,1,2,1,2,3,0,1,0,1,0,1,1,1,1,1,1,1,1,1,0,2,1,2,1,1,0,3,3,0,
    2,3,0,0,3,2,0,1,2,2,3,3,1,0,3,3,2,3,3,3,3,2,1,1,0,3,2,0,0,1,2,2,2,1,1,1,1,1,3,3,
    2,0,2,0,1,0,2,2,0,3,1,1,2,3,0,1,3,1,3,3,2,1,0,2,2,0,2,3,3,1,1,0,1,3,0,0,1,3,0,3,
    3,3,1,2,2,0,3,1,3,3,1,2,3,3,2,1,0,2,0,0,2,3,0,0,1,3,0,1,3,2,2,1,2,0,3,0,0,2,0,2,
    3,3,0,1,2,2,0,2,2,1,1,0,1,0,3,0,3,0,2,1,3,0,1,0,1,1,0,3,3,2,1,2,2,0,0,0,1,0,0,1,
    1,3,0,0,0,3,0,3,2,3,2,0,2,3,1,2,2,0,3,2,2,2,2,1,3,0,0,1,3,2,1,3,2,1,3,0,0,3,0,3,
    2,3,2,1,3,1,0,2,3,1,2,2,0,0,2,2,3,2,3,2,0,3,1,0,3,3,1,3,2,1,0,0,2,0,3,3,2,0,0,2,
    1,0,1,0,0,0,0,3,1,1,0,0,1,3,2,2,1,0,0,3,2,3,2,1,2,3,3,3,1,2,2,3,2,0,0,0,2,1,1,1,
    1,0,0,3,2,2,1,0,1,3,2,2,1,3,2,3,3,1,0,1,0,3,0,3,2,2,2,1,1,3,2,1,2,1,0,0,2,3,1,1,
    0,0,3,3,3,2,0,2,0,0,1,0,0,2,0,2,3,0,0,2,3,1,3,2,3,2,2,1,0,2,2,1,2,0,1,0,0,1,2,0,
    0,0,0,1,1,3,3,0,2,0,2,0,3,3,2,0,2,3,0,0,2,1,2,3,3,3,3,3,1,0,2,2,3,2,3,1,1,0,1,1,
    0,2,3,3,2,0,2,1,0,0,0,3,2,0,0,0,2,3,1,3,0,3,3,1,2,2,3,3,2,2,1,0,3,2,3,3,2,1,3,1,
    2,0,0,3,2,1,3,2,2,1,3,2,2,2,1,3,3,3,3,0,0,3,1,0,2,0,2,3,0,1,0,0,0,3,1,0,1,3,2,0,
    1,1,3,0,2,1,0,2,1,1,2,2,3,0,0,3,1,2,2,2,1,2,2,3,1,0,3,3,0,3,1,2,1,0,0,3,1,1,0,1,
    0,1,1,1,0,3,1,0,0,1,1,3,0,0,2,0,3,2,2,2,1,1,0,2,3,1,3,3,1,1,1,1,2,2,2,2,0,2,1,3,
    2,0,1,3,3,2,3,2,2,1,1,0,1,1,2,1,2,2,1,0,0,3,3,1,0,2,3,2,3,1,0,3,0,2,1,0,1,0,2,2,
    1,2,3,0,2,3,1,3,1,1,0,0,3,0,0,0,3,2,0,0,3,2,0,1,3,0,0,1,1,3,3,1,3,1,0,1,1,2,1,1,
    2,3,2,0,2,0,3,2,2,3,0,2,0,2,1,2,3,3,0,2,0,0,1,1,3,0,3,2,0,0,2,2,3,3,2,3,2,0,0,1,
    0,2,3,1,3,2,0,1,2,1,1,0,2,3,1,1,3,2,1,1,1,2,2,3,2,2,0,3,1,2,1,1,0,2,3,2,1,3,2,1,
    1,0,0,0,1,2,0,2,0,3,3,0,1,0,0,1,3,2,0,1,0,1,2,2,3,1,1,3,3,1,3,2,0,2,3,1,1,2,1,3,
    2,1,0,0,3,1,3,2,0,2,1,3,3,3,2,0,2,2,1,1,1,0,0,1,1,0,3,0,0,0,1,3,0,1,2,2,0,2,3,2,
    2,3,0,0,3,3,3,2,3,1,2,0,0,0,2,1,3,3,0,0,2,1,3,2,3,0,3,1,1,0,1,1,2,3,0,0,0,0,0,1,
    2,0,2,2,1,0,1,0,1,2,0,3,2,3,2,1,0,2,1,0,0,2,0,2,0,3,1,3,2,3,2,0,0,2,3,0,1,0,1,3,
    1,1,1,1,0,1,0,1,2,3,1,2,1,1,1,2,3,2,3,1,0,1,3,2,1,2,2,2,1,2,2,1,2,1,3,3,3,2,0,0,
    2,0,1,0,2,2,1,3,2,1,0,0,1,1,2,0,1,0,1,0,3,2,0,3,0,0,3,0,0,2,3,3,1,0,2,0,0,1,0,2,
    2,1,0,2,0,0,0,1,0,2,0,2,0,2,2,0,0,2,3,1,3,3,0,1,3,0,3,3,0,0,0,1,3,0,2,3,2,1,0,2,
    1,0,2,2,1,0,0,2,2,2,0,1,1,0,3,1,2,3,3,1,3,3,1,1,3,2,0,3,3,2,3,3,0,0,0,1,1,0,0,1,
    2,3,3,0,2,1,0,2,2,2,1,1,3,3,2,2,1,3,2,3,3,2,1,2,2,3,2,1,2,1,1,3,0,0,3,2,3,1,0,3,
    2,3,0,3,3,0,1,1,0,3,0,1,2,3,1,3,0,2,0,2,3,3,0,2,2,3,0,2,3,1,0,1,0,3,2,2,2,0,3,1,
    3,1,0,0,1,1,1,3,1,0,0,2,1,3,3,3,2,0,3,0,2,1,1,1,3,1,3,2,2,3,0,1,1,1,3,2,1,2,1,1,
    3,0,3,1,1,0,2,2,1,2,1,0,0,1,0,3,3,0,1,1,0,2,3,2,1,1,2,0,2,2,3,3,2,2,1,3,3,1,0,3,
    3,0,3,3,0,0,2,1,1,0,0,3,2,2,0,3,3,1,1,3,1,0,3,1,2,3,3,2,0,2,3,0,1,1,1,3,2,0,1,0,
    3,1,3,2,3,3,2,0,2,2,3,0,1,2,0,2,2,2,2,3,0,0,0,2,3,2,2,0,2,1,2,1,2,3,3,0,2,1,1,2,
    1,3,1,0,3,3,3,2,2,3,2,1,2,2,3,0,0,0,1,2,0,3,0,0,2,2,2,1,1,0,2,0,3,3,2,2,3,2,1,1,
    2,3,0,2,2,0,2,0,3,1,3,1,0,1,3,1,0,1,2,3,2,0,1,2,2,1,1,3,2,2,0,3,0,2,0,2,2,0,0,1,
    1,1,2,0,3,2,3,0,2,3,3,1,1,1,2,0,0,1,1,1,3,1,3,0,2,2,2,2,3,3,1,3,1,1,2,3,3,1,1,0,
    0,1,0,0,1,1,3,1,1,2,3,3,3,2,1,3,3,0,3,1,1,0,3,3,3,2,3,1,1,2,2,3,0,2,2,3,3,2,0,2,
    3,3,2,0,2,2,3,0,1,0,2,2,2,0,3,2,2,0,1,1,3,3,2,0,2,3,0,0,3,1,1,0,2,1,2,1,1,2,3,1,
    1,2,3,1,1,3,1,3,3,2,0,3,2,0,1,0,3,3,3,3,3,2,3,2,1,3,3,0,1,3,3,1,2,3,0,3,0,0,3,3,
    0,1,1,3,2,1,3,1,2,3,2,3,2,1,1,2,2,2,3,1,3,1,0,3,1,1,3,3,1,3,2,3,3,3,1,2,0,0,2,2,
    2,1,0,2,1,0,3,1,0,1,0,0,3,1,2,3,3,0,2,1,2,2,2,2,2,0,0,3,0,3,3,1,2,0,1,0,3,0,2,3,
    3,1,2,3,2,0,2,3,1,3,2,2,3,2,0,3,1,3,0,0,0,0,0,1,2,0,0,3,1,1,2,1,3,3,2,3,0,0,3,2,
    1,2,1,3,3,0,1,2,3,2,0,1,1,3,1,3,0,1,3,2,3,1,0,1,1,3,2,1,2,3,2,3,0,2,2,0,2,0,1,3,
    0,2,0,2,1,0,1,3,2,2,1,3,0,0,2,1,1,0,3,3,0,0,1,3,0,0,2,0,0,3,1,3,1,2,0,2,1,3,3,2,
    1,2,2,0,2,0,0,3,0,0,3,2,1,1,1,2,0,1,2,0,3,1,0,1,1,1,0,2,0,1,0,3,2,0,3,2,3,2,0,3,
    1,3,2,0,2,3,3,1,0,0,3,0,1,2,0,3,2,2,1,3,0,3,2,3,0,0,1,0,0,3,3,2,1,3,0,2,3,1,1,2,
    2,2,2,2,0,0,3,1,0,0,0,3,2,3,1,1,1,1,0,0,3,2,1,3,0,0,2,2,2,3,0,0,2,1,2,3,2,2,3,2,
    0,1,2,3,1,3,1,1,2,0,2,3,3,1,1,0,2,3,1,0,3,1,3,0,0,3,2,3,1,2,1,3,2,1,3,3,2,3,0,1,
    1,3,3,0,2,3,3,3,3,1,3,1,3,2,0,2,3,3,3,2,3,2,1,0,0,2,1,2,1,3,1,1,1,0,1,3,3,3,1,2,
    2,3,0,2,1,2,3,0,2,2,3,0,0,3,1,2,1,2,2,1,3,3,2,3,2,3,2,3,0,1,0,1,1,2,1,0,0,3,0,3,
    1,0,1,0,0,3,1,0,2,1,1,1,3,2,1,0,0,3,0,1,0,1,0,2,3,3,2,2,3,2,1,0,3,2,1,3,2,3,2,3,
    1,1,0,3,0,3,2,2,0,3,0,1,0,0,2,0,3,2,0,1,0,0,0,2,3,1,0,3,3,2,1,2,3,3,3,2,1,0,2,3,
    2,3,0,0,1,3,1,1,0,2,2,1,0,3,2,1,2,2,3,0,3,0,2,1,3,0,2,0,0,0,2,1,1,1,0,2,0,1,1,2,
    0,3,3,1,2,0,0,1,1,0,0,1,0,3,1,0,1,2,1,1,2,3,0,2,1,0,2,0,0,2,0,3,2,3,1,0,1,1,0,2,
    0,1,1,2,0,1,3,1,1,2,3,1,1,3,0,0,1,1,0,2,3,3,2,2,2,2,2,2,3,2,0,2,2,3,3,2,3,1,3,3,
    3,3,0,0,0,2,2,1,0,2,3,3,0,1,1,3,1,0,3,2,2,1,3,3,2,3,3,3,1,3,0,1,3,3,0,1,2,2,1,3,
    3,2,2,2,0,2,0,1,3,2,3,3,2,2,1,0,0,3,2,1,1,1,1,1,0,0,0,2,3,1,2,1,0,2,0,1,1,3,1,0,
    1,3,3,0,2,1,3,1,1,2,3,1,3,0,0,1,3,1,3,3,2,2,2,1,2,2,0,3,3,2,3,0,0,2,0,3,1,3,1,2,
    1,0,3,1,3,2,2,0,2,1,2,0,3,3,2,1,0,1,0,2,0,0,2,1,2,0,2,0,2,3,3,2,1,0,3,1,0,3,3,2,
    0,1,1,1,0,1,1,1,2,2,0,0,1,2,3,3,1,1,2,2,2,0,0,1,0,2,2,0,3,1,3,1,3,0,1,1,1,2,2,3,
    0,2,1,2,0,2,1,3,1,0,3,2,2,2,3,1,3,3,0,3,2,1,1,1,2,2,2,2,2,3,2,2,2,2,1,2,3,3,3,0,
    1,2,0,2,0,0,3,3,0,3,0,1,3,3,3,1,0,2,3,0,1,2,3,1,1,2,0,3,3,0,0,0,2,2,3,2,1,3,2,0,
    1,0,3,0,2,2,3,0,3,0,1,2,3,1,1,3,3,1,0,1,3,1,0,2,2,1,0,2,1,1,0,3,1,3,3,2,3,0,2,2,
    2,1,1,3,2,2,0,3,0,3,3,1,1,0,3,2,1,2,0,1,1,3,0,3,1,0,1,0,1,2,2,3,2,1,1,2,3,2,0,0,
    0,2,2,2,0,3,1,2,3,1,1,1,3,3,0,3,3,3,1,2,0,2,2,3,0,2,2,0,3,2,1,2,1,3,2,0,0,2,3,3,
    0,2,3,0,1,2,1,1,3,3,3,2,1,2,3,1,2,2,0,2,3,2,1,2,0,1,1,0,3,1,3,1,1,3,1,3,0,3,0,1,
    3,1,3,0,0,3,0,1,1,2,0,1,3,0,1,0,3,1,2,2,0,3,1,3,1,0,1,3,3,0,3,1
  >>

(***************************************************************************)
(* Inputs.  Every behaviour works on one data set chosen at the start:     *)
(* a prediction vector and its aligned label vector.  The two literal      *)
(* data sets of the specification's examples are always among them.        *)
(***************************************************************************)
Observations == {<<0, 0>>, <<5, 0>>, <<5, 1>>}

separable_toy == [f |-> <<1, 2, 8, 9>>, y |-> <<0, 0, 1, 1>>]
ratio_toy == [f |-> <<9, 2, 8, 7>>, y |-> <<1, 0, 1, 1>>]

Datasets ==
    {separable_toy, ratio_toy} \cup
    UNION {{[f |-> [i \in 1..k |-> o[i][1]], y |-> [i \in 1..k |-> o[i][2]]] :
            o \in [1..k -> Observations]} : k \in 1..MaxLen}

(***************************************************************************)
(* A confidence level is a float in (0,1).  Two families are modelled, and *)
(* on both the float arithmetic of lines 37-38 and 50-51 is known exactly: *)
(*   [num, den]  the level num/den, for levels on which (1. - c)/2,        *)
(*               1 - li and the two products li*n, ui*n truncate to the    *)
(*               same integers as in exact arithmetic (dyadic levels, and  *)
(*               the default 0.95 for every n up to the default 2000);     *)
(*   [ulps]      the float 1 - ulps * 2^-53, the ulps-th double below 1.   *)
(***************************************************************************)
ci_level_default == [num |-> 19, den |-> 20]
Ulp(m) == [ulps |-> m]
IsUlp(c) == "ulps" \in DOMAIN c
CiLevels == {[num |-> 1, den |-> 2], ci_level_default, Ulp(1)}

\* ------------------------------------------------------------- fractions
RECURSIVE GCD(_, _)
GCD(a, b) == IF b = 0 THEN a ELSE GCD(b, a % b)

Frac(n, d) ==
    IF d = 0 THEN [num |-> IF n = 0 THEN 0 ELSE 1, den |-> 0]
    ELSE LET g == GCD(n, d) IN [num |-> n \div g, den |-> d \div g]

NaN == [num |-> 0, den |-> 0]
IsNaN(a) == a.num = 0 /\ a.den = 0
IsInf(a) == a.num > 0 /\ a.den = 0

\* a < b and a <= b as IEEE comparisons: false as soon as one side is NaN
FloatLess(a, b) ==
    /\ ~IsNaN(a) /\ ~IsNaN(b)
    /\ IF IsInf(a) THEN FALSE
       ELSE IF IsInf(b) THEN TRUE
       ELSE a.num * b.den < b.num * a.den
FloatLeq(a, b) == ~IsNaN(a) /\ ~IsNaN(b) /\ ~FloatLess(b, a)

RECURSIVE SumSeq(_)
SumSeq(s) == IF s = <<>> THEN 0 ELSE Head(s) + SumSeq(Tail(s))

\* ------------------------------------------------------ numpy primitives
\* a[indices]: integer-array indexing builds a new array
take(a, indices) == [i \in 1..Len(indices) |-> a[indices[i] + 1]]

\* the smallest 2^k - 1 that is >= rng_max (the mask of the rejection sampler)
RECURSIVE gen_mask(_, _)
gen_mask(m, rng_max) == IF m >= rng_max THEN m ELSE gen_mask(2 * m + 1, rng_max)

\* one bounded draw: mask the next 32-bit output, reject while it exceeds rng_max
RECURSIVE bounded_draw(_, _, _)
bounded_draw(pos, rng_max, mask) ==
    LET v == MT42[pos + 1] % (mask + 1)
    IN IF v <= rng_max THEN [val |-> v, pos |-> pos + 1]
       ELSE bounded_draw(pos + 1, rng_max, mask)

RECURSIVE bounded_fill(_, _, _, _, _)
bounded_fill(pos, rng_max, mask, cnt, out) ==
    IF cnt = 0 THEN [out |-> out, pos |-> pos]
    ELSE LET d == bounded_draw(pos, rng_max, mask)
         IN bounded_fill(d.pos, rng_max, mask, cnt - 1, Append(out, d.val))

\* rng.randint(0, high, size) on a generator that has consumed pos outputs;
\* a one-value range consumes nothing
randint(pos, high, size) ==
    IF high - 1 = 0 THEN [out |-> [i \in 1..size |-> 0], pos |-> pos]
    ELSE bounded_fill(pos, high - 1, gen_mask(1, high - 1), size, <<>>)

\* variant: one generator shared by all calls, continuing where the last
\* call left it
SharedRandomState(left_behind) == left_behind

\* lines 40, 59, np.random.RandomState(seed=42): a generator of its own at the
\* start of the stream, whatever generator an earlier call left behind
RandomState(left_behind) == 0

\* ndarray.sort(): ascending, +inf after the finite values, NaN last
SortsBefore(a, b) ==
    IF IsNaN(a) THEN FALSE
    ELSE IF IsNaN(b) THEN TRUE
    ELSE FloatLess(a, b)

RECURSIVE sort_blocks(_, _)
sort_blocks(vals, s) ==
    IF vals = {} THEN <<>>
    ELSE LET v == CHOOSE v \in vals : \A w \in vals : ~SortsBefore(w, v)
         IN [i \in 1..Cardinality({j \in DOMAIN s : s[j] = v}) |-> v]
            \o sort_blocks(vals \ {v}, s)

ndarray_sort(s) == sort_blocks({s[i] : i \in DOMAIN s}, s)

\* ------------------------------------------------------------ statistics
\* sklearn.metrics.roc_auc_score on binary labels: the share of
\* (positive, negative) pairs ranked correctly, ties counting one half;
\* ValueError when only one class is present
\* variant: an AUC that is NaN, not an error, when one class is absent
roc_auc_score_or_nan(y, f) ==
    LET pos == {i \in DOMAIN y : y[i] = 1}
        neg == {i \in DOMAIN y : y[i] = 0}
        above == {<<i, j>> \in pos \X neg : f[i] > f[j]}
        tied == {<<i, j>> \in pos \X neg : f[i] = f[j]}
    IN [raised |-> FALSE,
        value |-> Frac(2 * Cardinality(above) + Cardinality(tied),
                       2 * Cardinality(pos) * Cardinality(neg))]

roc_auc_score(y, f) ==
    LET pos == {i \in DOMAIN y : y[i] = 1}
        neg == {i \in DOMAIN y : y[i] = 0}
        above == {<<i, j>> \in pos \X neg : f[i] > f[j]}
        tied == {<<i, j>> \in pos \X neg : f[i] = f[j]}
    IN IF pos = {} \/ neg = {}
       THEN [raised |-> TRUE, error |-> "ValueError"]
       ELSE [raised |-> FALSE,
             value |-> Frac(2 * Cardinality(above) + Cardinality(tied),
                            2 * Cardinality(pos) * Cardinality(neg))]

\* variant: predicted over observed
predicted_over_observed(y, f) ==
    [raised |-> FALSE, value |-> Frac(SumSeq(f), 10 * SumSeq(y))]

\* y.mean() / f.mean(), f in tenths; a zero denominator gives inf or NaN
mean_ratio(y, f) ==
    [raised |-> FALSE, value |-> Frac(10 * SumSeq(y), SumSeq(f))]

statistic(fn, y, f) ==
    IF fn = "auc_ci" THEN roc_auc_score(y, f) ELSE mean_ratio(y, f)

\* ---------------------------------------------- lines 37-38, 50-51: cut points
\* nearest-even rounding of ulps/2: 1 - ulps*2^-54 lies midway between two
\* doubles when ulps is odd, and rounds to the one with the even significand
round_half_even(m) ==
    IF m % 2 = 0 THEN m \div 2
    ELSE IF ((m - 1) \div 2) % 2 = 0 THEN (m - 1) \div 2 ELSE (m + 1) \div 2

\* int(li * len(sorted_scores)), li = (1. - ci_level)/2
lower_index(c, n) ==
    IF IsUlp(c) THEN 0
    ELSE ((c.den - c.num) * n) \div (2 * c.den)

\* int(ui * len(sorted_scores)), ui = 1 - li.  For c = 1 - ulps*2^-53 the
\* float ui is 1 - round_half_even(ulps)*2^-53: 1.0 itself when that is 0,
\* else a double below 1 whose product with n truncates to n - 1
upper_index(c, n) ==
    IF IsUlp(c)
    THEN IF round_half_even(c.ulps) = 0 THEN n ELSE n - 1
    ELSE ((c.den + c.num) * n) \div (2 * c.den)

\* ------------------------------------------- lines 43-46, 62-65: the loop
\* lines 46, 65: the statistic is appended to the list; one that raises ends
\* the loop, with the sample that made it raise drawn
\* variant: a loop that skips a resample whose statistic raised
skip_failed_statistic(st, d, s) ==
    IF s.raised
    THEN [raised |-> FALSE, pos |-> d.pos,
          samples |-> Append(st.samples, d.out), scores |-> st.scores]
    ELSE [raised |-> FALSE, pos |-> d.pos,
          samples |-> Append(st.samples, d.out),
          scores |-> Append(st.scores, s.value)]

append_statistic(st, d, s) ==
    IF s.raised
    THEN [raised |-> TRUE, pos |-> d.pos,
          samples |-> Append(st.samples, d.out), scores |-> st.scores]
    ELSE [raised |-> FALSE, pos |-> d.pos,
          samples |-> Append(st.samples, d.out),
          scores |-> Append(st.scores, s.value)]

\* lines 45, 64: the statistic of the pair resampled at the drawn indices
resample(fn, f, y, st, d) ==
    append_statistic(st, d, statistic(fn, take(y, d.out), take(f, d.out)))

\* lines 44, 63: indices = rng.randint(0, len(f_hat), len(f_hat))
bootstrap_step(fn, f, y, st) ==
    resample(fn, f, y, st, randint(st.pos, Len(f), Len(f)))

\* iterations lo+1 .. hi of "for i in range(n_bootstraps)", in order, from the
\* loop state st; nothing runs once an iteration has raised
RECURSIVE bootstrap_loop(_, _, _, _, _, _)
bootstrap_loop(fn, f, y, lo, hi, st) ==
    IF st.raised \/ lo >= hi THEN st
    ELSE IF hi = lo + 1 THEN bootstrap_step(fn, f, y, st)
    ELSE bootstrap_loop(fn, f, y, (lo + hi) \div 2, hi,
                        bootstrap_loop(fn, f, y, lo, (lo + hi) \div 2, st))

\* variant: the in-place sort applied to the caller's arrays
sort_caller_arrays(f, y) == [f_hat |-> SortSeq(f, <), y_true |-> SortSeq(y, <)]

\* what a call leaves in the caller's two arrays: y_true[indices] and
\* f_hat[indices] are copies and sorted_scores is a new array (np.array of the
\* list), so the in-place sort of lines 49, 68 touches nothing of the caller's
caller_arrays(f, y) == [f_hat |-> f, y_true |-> y]

\* ------------------------------------ lines 36-53 and 55-72: auc_ci, op_ratio_ci
ci_trace(args, b) ==
    [args |-> args, samples |-> b.samples, scores |-> b.scores, rng |-> b.pos,
     arrays |-> caller_arrays(args.f_hat, args.y_true)]

\* lines 50-53, 69-72: the two cut points of the sorted array; an index past
\* its end is an IndexError
ci_bounds(args, b, sorted_scores) ==
    IF \/ lower_index(args.ci_level, Len(sorted_scores)) >= Len(sorted_scores)
       \/ upper_index(args.ci_level, Len(sorted_scores)) >= Len(sorted_scores)
    THEN [outcome |-> "raised", error |-> "IndexError"] @@ ci_trace(args, b)
    ELSE [outcome |-> "returned",
          confidence_lower |->
              sorted_scores[lower_index(args.ci_level, Len(sorted_scores)) + 1],
          confidence_upper |->
              sorted_scores[upper_index(args.ci_level, Len(sorted_scores)) + 1],
          sorted_scores |-> sorted_scores] @@ ci_trace(args, b)

\* lines 48-49, 67-68, reached when no statistic raised
ci_sorted(args, b) ==
    IF b.raised
    THEN [outcome |-> "raised", error |-> "ValueError"] @@ ci_trace(args, b)
    ELSE ci_bounds(args, b, ndarray_sort(b.scores))

ci_estimator(fn, f, y, n, c, left_behind) ==
    ci_sorted([fn |-> fn, f_hat |-> f, y_true |-> y, n_bootstraps |-> n,
               ci_level |-> c],
              bootstrap_loop(fn, f, y, 0, n,
                             [raised |-> FALSE, pos |-> RandomState(left_behind),
                              samples |-> <<>>, scores |-> <<>>]))

auc_ci(f, y, n, c, left_behind) == ci_estimator("auc_ci", f, y, n, c, left_behind)
op_ratio_ci(f, y, n, c, left_behind) == ci_estimator("op_ratio_ci", f, y, n, c, left_behind)

\* ------------------------------------------------- lines 113-117: op_ratio
\* f_hat[:, 1] is the positive-class column of predict_proba(X): the
\* prediction vector f.  The triple is built from the ratio on the full data
\* and the two bounds of op_ratio_ci with its default arguments
op_ratio_triple(f, y, ci) ==
    IF ci.outcome = "raised"
    THEN [outcome |-> "raised", error |-> ci.error,
          args |-> [fn |-> "op_ratio", f_hat |-> f, y_true |-> y],
          inner |-> <<ci>>, rng |-> ci.rng, arrays |-> ci.arrays]
    ELSE [outcome |-> "returned",
          result |-> <<mean_ratio(y, f).value, ci.confidence_lower,
                       ci.confidence_upper>>,
          args |-> [fn |-> "op_ratio", f_hat |-> f, y_true |-> y],
          inner |-> <<ci>>, rng |-> ci.rng, arrays |-> ci.arrays]

op_ratio(f, y, left_behind) ==
    op_ratio_triple(f, y, op_ratio_ci(f, y, n_bootstraps_default,
                                      ci_level_default, left_behind))

\* ------------------------------------------- lines 90-92, 108-110, 133-135
None == [given |-> FALSE]
Name(s) == [given |-> TRUE, name |-> s]

\* variant: a save step without the test on save_name
savefig_always(save_name) ==
    IF save_name # None THEN <<"./figures/" \o save_name.name \o ".svg">>
    ELSE <<"./figures/None.svg">>

\* if save_name != None: plt.savefig('./figures/' + save_name + '.svg'); the
\* files the step writes
savefig_step(save_name) ==
    IF save_name # None THEN <<"./figures/" \o save_name.name \o ".svg">>
    ELSE <<>>

\* ---------------------------------------------- lines 75-92: gen_auc_plot
\* a model is given by the positive-class predictions it makes on X.
\* The loop body for models k+1 .. Len(models): the point AUC (line 80), the
\* bootstrap interval with the default arguments, the curve (lines 81-82)
RECURSIVE auc_plot_loop(_, _, _, _)
RECURSIVE auc_plot_curve(_, _, _, _, _, _)
RECURSIVE auc_plot_model(_, _, _, _, _)

auc_plot_curve(models, y, k, st, auc, ci) ==
    IF ci.outcome = "raised"
    THEN [st EXCEPT !.raised = TRUE, !.error = ci.error,
                    !.inner = Append(@, ci), !.rng = ci.rng]
    ELSE auc_plot_loop(models, y, k + 1,
             [st EXCEPT !.inner = Append(@, ci), !.rng = ci.rng,
                        !.curves = Append(@, [auc |-> auc.value,
                                              lower |-> ci.confidence_lower,
                                              upper |-> ci.confidence_upper])])

auc_plot_model(models, y, k, st, auc) ==
    IF auc.raised
    THEN [st EXCEPT !.raised = TRUE, !.error = auc.error]
    ELSE auc_plot_curve(models, y, k, st, auc,
                        auc_ci(models[k + 1], y, n_bootstraps_default,
                               ci_level_default, st.rng))

auc_plot_loop(models, y, k, st) ==
    IF k = Len(models) THEN st
    ELSE auc_plot_model(models, y, k, st, roc_auc_score(y, models[k + 1]))

\* lines 84-92, reached when the loop raised nothing
auc_plot_finish(models, y, save_name, st) ==
    IF st.raised
    THEN [outcome |-> "raised", error |-> st.error, saved |-> <<>>,
          shown |-> FALSE,
          args |-> [fn |-> "gen_auc_plot", models |-> models, y_true |-> y,
                    save_name |-> save_name],
          inner |-> st.inner, curves |-> st.curves, rng |-> st.rng]
    ELSE [outcome |-> "returned", saved |-> savefig_step(save_name),
          shown |-> TRUE,
          args |-> [fn |-> "gen_auc_plot", models |-> models, y_true |-> y,
                    save_name |-> save_name],
          inner |-> st.inner, curves |-> st.curves, rng |-> st.rng]

gen_auc_plot(models, y, save_name, left_behind) ==
    auc_plot_finish(models, y, save_name,
        auc_plot_loop(models, y, 0,
            [raised |-> FALSE, error |-> "", inner |-> <<>>, curves |-> <<>>,
             rng |-> left_behind]))

\* -------------------------------------------- lines 94-110: gen_calib_plot
\* calibration_curve(y, f, n_bins=10) accepts every label vector over {0,1}
\* with predictions in [0,1]: one curve per model, none raises
gen_calib_plot(models, y, save_name, left_behind) ==
    [outcome |-> "returned",
     args |-> [fn |-> "gen_calib_plot", models |-> models, y_true |-> y,
               save_name |-> save_name],
     inner |-> <<>>, curves |-> [k \in 1..Len(models) |-> [n_bins |-> 10]],
     rng |-> left_behind,
     saved |-> savefig_step(save_name), shown |-> TRUE]

\* ----------------------------------------- lines 13-33, 119-135: log odds
\* colors from Tableau, as 8-bit RGB; a Python index i is position i + 1
tableau20 == <<
    <<31, 119, 180>>, <<174, 199, 232>>, <<255, 127, 14>>, <<255, 187, 120>>,
    <<44, 160, 44>>, <<152, 223, 138>>, <<214, 39, 40>>, <<255, 152, 150>>,
    <<148, 103, 189>>, <<197, 176, 213>>, <<140, 86, 75>>, <<196, 156, 148>>,
    <<227, 119, 194>>, <<247, 182, 210>>, <<127, 127, 127>>, <<199, 199, 199>>,
    <<188, 189, 34>>, <<219, 219, 141>>, <<23, 190, 207>>, <<158, 218, 229>> >>

Abs(x) == IF x < 0 THEN -x ELSE x
Min(a, b) == IF a < b THEN a ELSE b

\* lines 121-122: one row per (feature, coefficient) pair of the zip, in order
coef_frame(features, coef_) ==
    [i \in 1..Min(Len(features), Len(coef_)) |->
        [feature |-> features[i], log_odds |-> coef_[i]]]

\* variant: sort_values(ascending=True)
ascending_orders(rows) ==
    {p \in Permutations(DOMAIN rows) :
        \A i, j \in DOMAIN rows :
            i < j => Abs(rows[p[i]].log_odds) <= Abs(rows[p[j]].log_odds)}

\* line 123, coef.log_odds.abs().sort_values(ascending=False): the row orders
\* a descending sort may produce; the order among equal magnitudes is the
\* sort routine's choice
descending_orders(rows) ==
    {p \in Permutations(DOMAIN rows) :
        \A i, j \in DOMAIN rows :
            i < j => Abs(rows[p[i]].log_odds) >= Abs(rows[p[j]].log_odds)}

\* line 123: reindex in that order, then .iloc[0:n_features, :]
top_rows(rows, order, n_features) ==
    [i \in 1..Min(n_features, Len(rows)) |-> rows[order[i]]]

\* line 124: coef.reindex(index=coef.index[::-1])
reversed(rows) == [i \in 1..Len(rows) |-> rows[Len(rows) + 1 - i]]

\* lines 125-126: pos_neg = coef.log_odds > 0, mapped to the two colors
color_map(rows) ==
    [i \in 1..Len(rows) |->
        IF rows[i].log_odds > 0 THEN tableau20[positive_color + 1]
        ELSE tableau20[negative_color + 1]]

\* variant: colors computed before the frame is reversed
colors_of_selection(selected, coef) == color_map(selected)

\* the colors handed to the plot: those of the frame as it is plotted (coef
\* of line 124), not of the frame as selected (line 123)
bar_colors(selected, coef) == color_map(coef)

\* lines 127-130: barh draws row i of the frame at height i - 1, so bars[1]
\* is the lowest bar
barh(coef, colors) ==
    [i \in 1..Len(coef) |->
        [feature |-> coef[i].feature, log_odds |-> coef[i].log_odds,
         color |-> colors[i]]]

gen_logodds_plot(coef_, features, n_features, save_name, order, left_behind) ==
    [outcome |-> "returned",
     args |-> [fn |-> "gen_logodds_plot", coef_ |-> coef_, features |-> features,
               n_features |-> n_features, save_name |-> save_name],
     bars |-> barh(reversed(top_rows(coef_frame(features, coef_), order,
                                     n_features)),
                   bar_colors(top_rows(coef_frame(features, coef_), order,
                                       n_features),
                              reversed(top_rows(coef_frame(features, coef_),
                                                order, n_features)))),
     inner |-> <<>>, rng |-> left_behind,
     saved |-> savefig_step(save_name), shown |-> TRUE]

\* ------------------------------------------------------------------ state
VARIABLES
    f_hat,      \* the caller's prediction vector
    y_true,     \* the caller's label vector
    rng,        \* outputs consumed by the most recently created generator
    call,       \* the most recent call: its arguments and everything it did
    memo        \* the first auc_ci / op_ratio_ci call of the run

vars == <<f_hat, y_true, rng, call, memo>>

no_call == [outcome |-> "none"]

Init ==
    /\ \E d \in Datasets : f_hat = d.f /\ y_true = d.y
    /\ rng = 0
    /\ call = no_call
    /\ memo = no_call

BootstrapCounts == (1..MaxBoot) \cup {n_bootstraps_default}
SaveNames == {None, Name("fig")}

ci_call(r) ==
    /\ call' = r
    /\ rng' = r.rng
    /\ f_hat' = r.arrays.f_hat
    /\ y_true' = r.arrays.y_true
    /\ memo' = IF memo = no_call THEN r ELSE memo

call_auc_ci ==
    \E n \in BootstrapCounts, c \in CiLevels :
        ci_call(auc_ci(f_hat, y_true, n, c, rng))

call_op_ratio_ci(counts) ==
    \E n \in counts, c \in CiLevels :
        ci_call(op_ratio_ci(f_hat, y_true, n, c, rng))

ratio_call(r) ==
    /\ call' = r
    /\ rng' = r.rng
    /\ f_hat' = r.arrays.f_hat
    /\ y_true' = r.arrays.y_true
    /\ UNCHANGED memo

call_op_ratio == ratio_call(op_ratio(f_hat, y_true, rng))

\* the models at hand: none, or the one whose predictions are f_hat
ModelLists == {<<>>, <<f_hat>>}

plot_call(r) ==
    /\ call' = r
    /\ rng' = r.rng
    /\ UNCHANGED <<f_hat, y_true, memo>>

call_gen_auc_plot ==
    \E models \in ModelLists, save_name \in SaveNames :
        plot_call(gen_auc_plot(models, y_true, save_name, rng))

call_gen_calib_plot ==
    \E models \in ModelLists, save_name \in SaveNames :
        plot_call(gen_calib_plot(models, y_true, save_name, rng))

\* the fitted linear model and its feature names: one to MaxFeatures
\* distinctly named features, and a request for one bar or more
FeatureNames == <<"age", "bun", "gcs", "hr", "wbc">>
CoefValues == {-2, -1, 0, 1}

call_gen_logodds_plot ==
    \E k \in 1..MaxFeatures :
        \E coef_ \in [1..k -> CoefValues], n_features \in 1..(MaxFeatures + 1),
           save_name \in SaveNames :
            \E order \in descending_orders(coef_frame(SubSeq(FeatureNames, 1, k),
                                                      coef_)) :
                plot_call(gen_logodds_plot(coef_, SubSeq(FeatureNames, 1, k),
                                           n_features, save_name, order, rng))

Next ==
    \/ call_auc_ci
    \/ call_op_ratio_ci(1..MaxBoot)
    \/ call_gen_auc_plot
    \/ call_gen_calib_plot

Spec == Init /\ [][Next]_vars

\* one call of an estimator or of op_ratio on the drawn data set, the
\* bootstrap count of op_ratio_ci ranging up to the default
NextRatio ==
    \/ call = no_call /\ call_op_ratio
    \/ call = no_call /\ call_op_ratio_ci(BootstrapCounts)
    \/ call = no_call /\ call_auc_ci

SpecRatio == Init /\ [][NextRatio]_vars

\* one call of a plotting function
NextPlots ==
    \/ call = no_call /\ call_gen_auc_plot
    \/ call = no_call /\ call_gen_calib_plot
    \/ call = no_call /\ call_gen_logodds_plot

SpecPlots == Init /\ [][NextPlots]_vars

\* ================================================================ claims
Made(c) == c.outcome # "none"
IsDirectCi(c) == Made(c) /\ c.args.fn \in {"auc_ci", "op_ratio_ci"}
IsPlot(c) ==
    Made(c) /\ c.args.fn \in {"gen_auc_plot", "gen_calib_plot", "gen_logodds_plot"}

\* the estimator calls made during call c: c itself, or the ones it made
CiCallsOf(c) ==
    IF ~Made(c) THEN {}
    ELSE IF IsDirectCi(c) THEN {c}
    ELSE {c.inner[i] : i \in DOMAIN c.inner}

\* what the caller of an estimator gets back
Answer(c) ==
    IF c.outcome = "returned"
    THEN <<"returned", c.confidence_lower, c.confidence_upper>>
    ELSE <<"raised", c.error>>

Zero == [num |-> 0, den |-> 1]
One == [num |-> 1, den |-> 1]
OneClass(labels) == \A i, j \in DOMAIN labels : labels[i] = labels[j]

\* C1: an estimator call made with the arguments of the first estimator call
\* of the run gives the caller the same answer (the same bounds, or the same
\* error), whatever calls were made in between and whether it is made
\* directly or from inside gen_auc_plot.
C1_Deterministic ==
    memo # no_call =>
        \A c \in CiCallsOf(call) : c.args = memo.args => Answer(c) = Answer(memo)

C1_Witness ==
    /\ memo # no_call
    /\ IsDirectCi(call)
    /\ call.args = memo.args
    /\ call.outcome = "returned"
    /\ Len(call.samples) >= 2
    /\ Len(call.args.f_hat) >= 2

\* C2: whenever auc_ci or op_ratio_ci returns, lower <= upper, and the bounds
\* of auc_ci lie in [0, 1].
C2_Claim ==
    (IsDirectCi(call) /\ call.outcome = "returned") =>
        /\ FloatLeq(call.confidence_lower, call.confidence_upper)
        /\ call.args.fn = "auc_ci" =>
               /\ FloatLeq(Zero, call.confidence_lower)
               /\ FloatLeq(call.confidence_upper, One)

\* C3: op_ratio returns a triple: mean(y) / mean(predictions) on the full
\* data (15/13 = 0.75/0.65 on the example), then the two bounds op_ratio_ci
\* returns for the same vectors with 2000 bootstraps at level 0.95.
C3_Triple ==
    (Made(call) /\ call.args.fn = "op_ratio") =>
        /\ call.outcome = "returned"
        /\ Len(call.result) = 3
        /\ IF SumSeq(call.args.f_hat) = 0
           THEN call.result[1].den = 0
           ELSE call.result[1].num * SumSeq(call.args.f_hat)
                    = call.result[1].den * 10 * SumSeq(call.args.y_true)
        /\ (call.args.f_hat = ratio_toy.f /\ call.args.y_true = ratio_toy.y) =>
               call.result[1] = [num |-> 15, den |-> 13]
        /\ <<"returned", call.result[2], call.result[3]>>
               = Answer(op_ratio_ci(call.args.f_hat, call.args.y_true,
                                    n_bootstraps_default, ci_level_default, 0))

C3_Witness ==
    /\ Made(call) /\ call.args.fn = "op_ratio"
    /\ call.args.f_hat = ratio_toy.f /\ call.args.y_true = ratio_toy.y
    /\ call.outcome = "returned"
    /\ call.result[1] = [num |-> 15, den |-> 13]
    /\ Len(call.inner[1].samples) = n_bootstraps_default

\* C4 as claimed: on labels [0,0,1,1], scores [0.1,0.2,0.8,0.9] the AUC is 1.0
\* and auc_ci (default arguments) returns bounds that are both 1.0.
IsToyAucCi(c) ==
    /\ IsDirectCi(c) /\ c.args.fn = "auc_ci"
    /\ c.args.f_hat = separable_toy.f /\ c.args.y_true = separable_toy.y
    /\ c.args.ci_level = ci_level_default

C4_Claim ==
    (IsToyAucCi(call) /\ call.args.n_bootstraps = n_bootstraps_default) =>
        /\ roc_auc_score(separable_toy.y, separable_toy.f).value = One
        /\ Answer(call) = <<"returned", One, One>>

\* C4 as amended: the AUC of the toy set is 1.0; auc_ci at the default level
\* returns (1.0, 1.0) when n_bootstraps <= 4, and with n_bootstraps >= 5 (the
\* default 2000 included) it raises ValueError at the fifth resample, which
\* holds the one label 1 only.
C4_Amended ==
    IsToyAucCi(call) =>
        /\ roc_auc_score(separable_toy.y, separable_toy.f).value = One
        /\ call.args.n_bootstraps <= 4 => Answer(call) = <<"returned", One, One>>
        /\ call.args.n_bootstraps >= 5 =>
               /\ Answer(call) = <<"raised", "ValueError">>
               /\ Len(call.samples) = 5
               /\ call.samples[5] = <<3, 3, 3, 2>>
               /\ OneClass(take(separable_toy.y, call.samples[5]))
               /\ \A b \in 1..4 : ~OneClass(take(separable_toy.y, call.samples[b]))

C4_Witness ==
    /\ IsToyAucCi(call)
    /\ call.args.n_bootstraps = n_bootstraps_default
    /\ call.outcome = "raised"
    /\ Len(call.samples) = 5

\* C5: gen_logodds_plot draws min(n_features, number of features) bars, each
\* one of the given (feature, coefficient) pairs and no feature twice; no
\* feature left out has a larger absolute coefficient than a drawn one; read
\* from the top bar down, absolute coefficients descend.
C5_TopBars ==
    (Made(call) /\ call.args.fn = "gen_logodds_plot") =>
        LET names == call.args.features
            coefs == call.args.coef_
            bars == call.bars
            drawn == {bars[i].feature : i \in DOMAIN bars}
        IN /\ Len(bars) = Min(call.args.n_features, Len(names))
           /\ \A i \in DOMAIN bars :
                  \E j \in DOMAIN names :
                      names[j] = bars[i].feature /\ coefs[j] = bars[i].log_odds
           /\ Cardinality(drawn) = Len(bars)
           /\ \A j \in DOMAIN names :
                  names[j] \notin drawn =>
                      \A i \in DOMAIN bars : Abs(coefs[j]) <= Abs(bars[i].log_odds)
           /\ \A i, j \in DOMAIN bars :
                  i < j => Abs(bars[i].log_odds) <= Abs(bars[j].log_odds)

C5_Witness ==
    /\ Made(call) /\ call.args.fn = "gen_logodds_plot"
    /\ call.args.n_features < Len(call.args.features)
    /\ Len(call.bars) = 2
    /\ Abs(call.bars[1].log_odds) < Abs(call.bars[2].log_odds)
    /\ \E j \in DOMAIN call.args.coef_ :
           Abs(call.args.coef_[j]) < Abs(call.bars[1].log_odds)

\* C6 as claimed: a plotting call writes a file exactly when a save name is
\* given: then one file, ./figures/<save_name>.svg; with no save name it
\* writes nothing and shows the figure.
SavedAsNamed(c) ==
    IF c.args.save_name = None
    THEN c.saved = <<>>
    ELSE c.saved = <<"./figures/" \o c.args.save_name.name \o ".svg">>

C6_Claim ==
    IsPlot(call) =>
        /\ SavedAsNamed(call)
        /\ call.args.save_name = None => call.shown

\* C6 as amended: that holds of every plotting call that returns, and such a
\* call shows the figure; a plotting call that raises (gen_auc_plot, when an
\* AUC computation fails) writes no file and shows nothing, save name or not.
C6_Amended ==
    IsPlot(call) =>
        IF call.outcome = "returned"
        THEN SavedAsNamed(call) /\ call.shown
        ELSE /\ call.args.fn = "gen_auc_plot"
             /\ call.saved = <<>>
             /\ ~call.shown

C6_Witness ==
    /\ IsPlot(call)
    /\ call.outcome = "returned"
    /\ call.args.save_name = Name("fig")
    /\ call.saved = <<"./figures/fig.svg">>
    /\ call.args.fn = "gen_calib_plot"
    /\ Len(call.curves) = 1

\* C7: a call of auc_ci, op_ratio_ci or op_ratio receives the caller's two
\* vectors and leaves them as they were: same length, same values, same order.
C7_Frame ==
    [][(Made(call') /\ call'.args.fn \in {"auc_ci", "op_ratio_ci", "op_ratio"}) =>
           /\ call'.args.f_hat = f_hat /\ call'.args.y_true = y_true
           /\ f_hat' = f_hat /\ y_true' = y_true]_vars

C7_Witness ==
    /\ Made(call) /\ call.args.fn \in {"auc_ci", "op_ratio_ci", "op_ratio"}
    /\ call.outcome = "returned"
    /\ f_hat = call.args.f_hat /\ y_true = call.args.y_true
    /\ \E i, j \in DOMAIN f_hat : i < j /\ f_hat[i] > f_hat[j]
    /\ \E i, j \in DOMAIN y_true : i < j /\ y_true[i] > y_true[j]

\* C8: when no statistic raises, an estimator draws n samples of N indices in
\* [0, N), computes one statistic per sample on the aligned pairs, sorts them
\* ascending and returns the elements at floor(((1-c)/2) n) and
\* floor((1-(1-c)/2) n), both valid positions for every level c in (0,1).
ExactLower(c, n) ==
    IF IsUlp(c) THEN 0 ELSE ((c.den - c.num) * n) \div (2 * c.den)
ExactUpper(c, n) ==
    IF IsUlp(c) THEN n - 1 ELSE ((c.den + c.num) * n) \div (2 * c.den)

Ascending(s) == \A i, j \in DOMAIN s : i < j => ~SortsBefore(s[j], s[i])
SameBag(s, t) ==
    /\ Len(s) = Len(t)
    /\ \A v \in {s[i] : i \in DOMAIN s} \cup {t[i] : i \in DOMAIN t} :
           Cardinality({i \in DOMAIN s : s[i] = v})
               = Cardinality({i \in DOMAIN t : t[i] = v})

C8_Claim ==
    (IsDirectCi(call) /\ Answer(call) # <<"raised", "ValueError">>) =>
        LET n == call.args.n_bootstraps
            N == Len(call.args.f_hat)
        IN /\ call.outcome = "returned"
           /\ Len(call.samples) = n /\ Len(call.scores) = n
           /\ \A b \in 1..n :
                  /\ Len(call.samples[b]) = N
                  /\ \A i \in 1..N : call.samples[b][i] \in 0..(N - 1)
                  /\ call.scores[b]
                       = statistic(call.args.fn,
                                   [i \in 1..N |-> call.args.y_true[call.samples[b][i] + 1]],
                                   [i \in 1..N |-> call.args.f_hat[call.samples[b][i] + 1]]).value
           /\ Ascending(call.sorted_scores)
           /\ SameBag(call.sorted_scores, call.scores)
           /\ ExactLower(call.args.ci_level, n) \in 0..(n - 1)
           /\ ExactUpper(call.args.ci_level, n) \in 0..(n - 1)
           /\ call.confidence_lower
                  = call.sorted_scores[ExactLower(call.args.ci_level, n) + 1]
           /\ call.confidence_upper
                  = call.sorted_scores[ExactUpper(call.args.ci_level, n) + 1]

\* C9: an auc_ci call that draws a one-class resample raises at that resample:
\* it is the last one drawn, every earlier one gave a statistic, and the call
\* returns no bounds; gen_auc_plot, when it is the caller, raises with it,
\* after which it has written no file and shown nothing.
RaisedAtOneClass(c) ==
    /\ Answer(c) = <<"raised", "ValueError">>
    /\ OneClass(take(c.args.y_true, c.samples[Len(c.samples)]))
    /\ Len(c.scores) = Len(c.samples) - 1
    /\ \A b \in 1..(Len(c.samples) - 1) :
           ~OneClass(take(c.args.y_true, c.samples[b]))

C9_Propagates ==
    /\ \A c \in CiCallsOf(call) :
           (/\ c.args.fn = "auc_ci"
            /\ \E b \in DOMAIN c.samples : OneClass(take(c.args.y_true, c.samples[b])))
               => RaisedAtOneClass(c)
    /\ (Made(call) /\ call.args.fn = "gen_auc_plot") =>
           \A i \in DOMAIN call.inner :
               call.inner[i].outcome = "raised" =>
                   /\ i = Len(call.inner)
                   /\ call.outcome = "raised"
                   /\ call.error = call.inner[i].error
                   /\ call.saved = <<>>
                   /\ ~call.shown

C9_Witness ==
    /\ Made(call) /\ call.args.fn = "gen_auc_plot"
    /\ call.args.save_name = Name("fig")
    /\ Len(call.inner) = 1
    /\ RaisedAtOneClass(call.inner[1])
    /\ Len(call.inner[1].samples) >= 2
    /\ call.outcome = "raised"

\* C10: every bar of gen_logodds_plot has one of the two colors tableau20[8]
\* and tableau20[10]: the first when the coefficient of its own feature is
\* positive, the second when it is negative (zero coefficients included in
\* the inputs).
C10_Colors ==
    (Made(call) /\ call.args.fn = "gen_logodds_plot") =>
        \A i \in DOMAIN call.bars :
            \E j \in DOMAIN call.args.features :
                /\ call.args.features[j] = call.bars[i].feature
                /\ call.bars[i].color \in {tableau20[positive_color + 1],
                                           tableau20[negative_color + 1]}
                /\ call.args.coef_[j] > 0 =>
                       call.bars[i].color = tableau20[positive_color + 1]
                /\ call.args.coef_[j] < 0 =>
                       call.bars[i].color = tableau20[negative_color + 1]

C10_Witness ==
    /\ Made(call) /\ call.args.fn = "gen_logodds_plot"
    /\ Len(call.bars) = 3
    /\ call.bars[1].log_odds = 0
    /\ call.bars[2].log_odds < 0 /\ call.bars[2].color = tableau20[negative_color + 1]
    /\ call.bars[3].log_odds > 0 /\ call.bars[3].color = tableau20[positive_color + 1]

====
